---- MODULE Spec2Model ----
(***************************************************************************)
(* Model of the stevedore media pipeline: the Cobalt download task         *)
(* (stevedore/tasks/downloads.py), the MinIO bucket block                  *)
(* (stevedore/blocks/minio.py) and the audio key derivation                *)
(* (stevedore/tasks/audio.py).                                             *)
(*                                                                         *)
(* Python strings are sequences of symbols.  The symbols "/" and "." are   *)
(* the path separator and the dot; every other symbol stands for a run of  *)
(* characters that holds neither of them ("task-123", "video", "mp4").     *)
(* Python's None is the reserved one-symbol sequence None, which no string *)
(* of the model holds.                                                     *)
(***************************************************************************)
EXTENDS Naturals, Sequences, FiniteSets, TLC

None == <<"<None>">>

\* Python truthiness of an Optional[str]: None and "" are falsy.
Truthy(s) == s # None /\ s # <<>>

---------------------------------------------------------------------------
(* str methods *)

RECURSIVE rstrip(_)
rstrip(s) ==
  IF s # <<>> /\ s[Len(s)] = "/" THEN rstrip(SubSeq(s, 1, Len(s) - 1)) ELSE s

RECURSIVE lstrip(_)
lstrip(s) ==
  IF s # <<>> /\ s[1] = "/" THEN lstrip(Tail(s)) ELSE s

strip(s) == lstrip(rstrip(s))

\* s.split("/"): the runs between separators, empty runs included.
RECURSIVE split(_)
split(s) ==
  IF \A i \in 1..Len(s) : s[i] # "/"
  THEN <<s>>
  ELSE LET i == CHOOSE j \in 1..Len(s) :
                  s[j] = "/" /\ \A k \in 1..(j - 1) : s[k] # "/"
       IN  <<SubSeq(s, 1, i - 1)>> \o split(SubSeq(s, i + 1, Len(s)))

\* "/".join(segs)
RECURSIVE join(_)
join(segs) ==
  IF segs = <<>> THEN <<>>
  ELSE IF Len(segs) = 1 THEN segs[1]
  ELSE segs[1] \o <<"/">> \o join(Tail(segs))

\* filter(None, items): the truthy items, in order.
RECURSIVE filter_none(_)
filter_none(items) ==
  IF items = <<>> THEN <<>>
  ELSE IF Truthy(items[1]) THEN <<items[1]>> \o filter_none(Tail(items))
  ELSE filter_none(Tail(items))

---------------------------------------------------------------------------
(* pathlib.PurePosixPath, a path being held as its str() *)

\* The root of a path string: "//" for exactly two leading slashes, "/" for
\* one or for three and more, "" for none.
PathRoot(s) ==
  IF s = <<>> \/ s[1] # "/" THEN <<>>
  ELSE IF Len(s) >= 2 /\ s[2] = "/" /\ (Len(s) = 2 \/ s[3] # "/")
  THEN <<"/", "/">>
  ELSE <<"/">>

RECURSIVE DropDots(_)
DropDots(segs) ==
  IF segs = <<>> THEN <<>>
  ELSE IF segs[1] = <<>> \/ segs[1] = <<".">> THEN DropDots(Tail(segs))
  ELSE <<segs[1]>> \o DropDots(Tail(segs))

\* The components after the root: empty and "." segments are dropped.
PathTail(s) == DropDots(split(s))

\* PurePosixPath(s).parts
PathParts(s) ==
  (IF PathRoot(s) = <<>> THEN <<>> ELSE <<PathRoot(s)>>) \o PathTail(s)

\* str(PurePosixPath(s))
PurePosixPath(s) ==
  IF PathRoot(s) = <<>> /\ PathTail(s) = <<>> THEN <<".">>
  ELSE PathRoot(s) \o join(PathTail(s))

\* PurePosixPath(*parts): an absolute part discards what precedes it.
RECURSIVE JoinParts(_)
JoinParts(parts) ==
  IF parts = <<>> THEN <<>>
  ELSE LET head == JoinParts(SubSeq(parts, 1, Len(parts) - 1))
           last == parts[Len(parts)]
       IN  IF last # <<>> /\ last[1] = "/" THEN last
           ELSE IF head = <<>> \/ head[Len(head)] = "/" THEN head \o last
           ELSE head \o <<"/">> \o last

PathOf(parts) == PurePosixPath(JoinParts(parts))

\* a / b
PathJoin(a, b) == PathOf(<<a, b>>)

\* PurePosixPath(s).name
PathName(s) ==
  IF PathTail(s) = <<>> THEN <<>> ELSE PathTail(s)[Len(PathTail(s))]

\* PurePosixPath(s).parent
PathParent(s) ==
  IF PathTail(s) = <<>> THEN PurePosixPath(s)
  ELSE LET t == PathTail(s)
           up == SubSeq(t, 1, Len(t) - 1)
       IN  IF PathRoot(s) = <<>> /\ up = <<>> THEN <<".">>
           ELSE PathRoot(s) \o join(up)

\* Path(name).stem: the name up to its last dot, unless that dot is the
\* first or the last symbol or there is none.
PathStem(name) ==
  LET dots == {i \in 1..Len(name) : name[i] = "."}
  IN  IF dots = {} THEN name
      ELSE LET i == CHOOSE j \in dots : \A k \in dots : k <= j
           IN  IF 1 < i /\ i < Len(name) THEN SubSeq(name, 1, i - 1) ELSE name

---------------------------------------------------------------------------
(* key derivation *)

\* downloads.py: file_name = object_name or f"video_{task_id}.mp4"
file_name_of(task_id, object_name) ==
  IF Truthy(object_name) THEN object_name
  ELSE <<"video_">> \o task_id \o <<".", "mp4">>

\* A faulty variant: the bucket prefix is left out of the object key.
object_key_of_no_prefix(prefix, file_name) == file_name

\* downloads.py: object_key = f"{prefix.rstrip('/')}/{file_name}" if prefix else file_name
object_key_of(prefix, file_name) ==
  IF Truthy(prefix) THEN rstrip(prefix) \o <<"/">> \o file_name ELSE file_name

\* downloads.py: storage_key = "/".join(filter(None, [task_id, "download", object_key]))
download_storage_key(task_id, prefix, object_name) ==
  join(filter_none(<<task_id, <<"download">>,
                     object_key_of(prefix, file_name_of(task_id, object_name))>>))

\* A faulty variant: the bucket prefix is joined as it is, its slashes not stripped.
derive_storage_key_raw_prefix(source_object_path, task_id, bucket_prefix, object_name) ==
  LET parts0   == PathParts(source_object_path)
      parts1   == IF parts0 # <<>> /\ parts0[1] = task_id THEN Tail(parts0) ELSE parts0
      parts    == IF parts1 # <<>> /\ parts1[1] = <<"download">> THEN Tail(parts1) ELSE parts1
      relative_key  == IF parts # <<>> THEN PathOf(parts)
                       ELSE PurePosixPath(PathName(source_object_path))
      inferred_name == PathStem(PathName(relative_key)) \o <<".", "audio", ".", "mka">>
      audio_name    == IF Truthy(object_name) THEN object_name ELSE inferred_name
      parent        == PathParent(relative_key)
      rel1 == IF parent \notin {<<".">>, <<>>}
              THEN PathJoin(<<"extract-audio">>, parent) ELSE <<"extract-audio">>
      rel2 == PathJoin(rel1, audio_name)
      audio_relative == IF Truthy(bucket_prefix)
                        THEN PathJoin(PurePosixPath(bucket_prefix), rel2)
                        ELSE rel2
  IN  <<audio_relative, PathJoin(PurePosixPath(task_id), audio_relative)>>

\* A faulty variant: a leading download segment is not stripped.
derive_storage_key_keep_download(source_object_path, task_id, bucket_prefix, object_name) ==
  LET parts0   == PathParts(source_object_path)
      parts    == IF parts0 # <<>> /\ parts0[1] = task_id THEN Tail(parts0) ELSE parts0
      relative_key  == IF parts # <<>> THEN PathOf(parts)
                       ELSE PurePosixPath(PathName(source_object_path))
      inferred_name == PathStem(PathName(relative_key)) \o <<".", "audio", ".", "mka">>
      audio_name    == IF Truthy(object_name) THEN object_name ELSE inferred_name
      parent        == PathParent(relative_key)
      rel1 == IF parent \notin {<<".">>, <<>>}
              THEN PathJoin(<<"extract-audio">>, parent) ELSE <<"extract-audio">>
      rel2 == PathJoin(rel1, audio_name)
      audio_relative == IF Truthy(bucket_prefix)
                        THEN PathJoin(PurePosixPath(strip(bucket_prefix)), rel2)
                        ELSE rel2
  IN  <<audio_relative, PathJoin(PurePosixPath(task_id), audio_relative)>>

\* audio.py _derive_storage_key: <<relative key, full storage key>>
derive_storage_key(source_object_path, task_id, bucket_prefix, object_name) ==
  LET parts0   == PathParts(source_object_path)
      parts1   == IF parts0 # <<>> /\ parts0[1] = task_id THEN Tail(parts0) ELSE parts0
      parts    == IF parts1 # <<>> /\ parts1[1] = <<"download">> THEN Tail(parts1) ELSE parts1
      relative_key  == IF parts # <<>> THEN PathOf(parts)
                       ELSE PurePosixPath(PathName(source_object_path))
      inferred_name == PathStem(PathName(relative_key)) \o <<".", "audio", ".", "mka">>
      audio_name    == IF Truthy(object_name) THEN object_name ELSE inferred_name
      parent        == PathParent(relative_key)
      rel1 == IF parent \notin {<<".">>, <<>>}
              THEN PathJoin(<<"extract-audio">>, parent) ELSE <<"extract-audio">>
      rel2 == PathJoin(rel1, audio_name)
      audio_relative == IF Truthy(bucket_prefix)
                        THEN PathJoin(PurePosixPath(strip(bucket_prefix)), rel2)
                        ELSE rel2
  IN  <<audio_relative, PathJoin(PurePosixPath(task_id), audio_relative)>>

---------------------------------------------------------------------------
(* the inputs and the environment of the stages *)

\* Bound on the number of stage invocations started in one behaviour.
MaxInvocations == 2

\* The workers that run stage invocations.
Procs == {1, 2}

Missing == "<missing>"

SourceUrls == {"http://example.com/video", "http://example.com/other"}
TaskIds == {<<"task-123">>}
ObjectNames == {None, <<"video", ".", "mp4">>}

\* The registered MinIOBucket blocks, by name.
BucketBlocks == {"minio", "minio-videos"}

\* MinIOBucket.load(name).bucket_path_prefix
bucket_path_prefix(block) == IF block = "minio-videos" THEN <<"videos">> ELSE None

\* What the extraction service can answer.
DownloadUrl == "http://download.test/video"
Payloads ==
  [status : {"tunnel", "redirect", "picker", "error", "rate-limit", Missing},
   url    : {Missing, "", DownloadUrl},
   error  : {Missing, "error.api.fetch.fail"}]

\* Error codes of a failed head request that are not "not found".
OtherCodes == {"403"}
NotFoundCodes == {"404", "NoSuchKey"}

\* What ffprobe can do on a local file.
ProbeOutcomes == {"no_file", "no_tool", "tool_failed", "bad_json", "ok"}

\* What it can do on a file that exists.
FileProbeOutcomes == ProbeOutcomes \ {"no_file"}

\* What running ffmpeg can do: the binary is missing, it exits non-zero
\* (with or without diagnostics), or it exits 0 leaving no output file, an
\* empty one or a non-empty one.
FfmpegOutcomes == {"not_found", "nonzero", "nonzero_silent", "no_output", "empty_output", "ok"}
ProbeFields == {"duration_seconds", "size_bytes", "bitrate", "codec", "resolution"}

\* Content of an object that was in the bucket before the first invocation.
Dummy == "dummy"

\* Content of an extracted audio track.
AudioTrack == "audio-track"

\* Scratch entries: a directory made by mkdtemp, or a file in it.
Dir(d) == [dir |-> d, file |-> None]
File(d, name) == [dir |-> d, file |-> name]

NoArgs    == [kind |-> "none"]
NoPayload == [kind |-> "none"]
NoError   == [type |-> "none"]
NoDerivation == [fn |-> "none"]
NoFlow    == [pc |-> "none"]

VARIABLES
  store,        \* the bucket: object key -> content
  pc,           \* per worker: where its invocation stands
  args,         \* per worker: the arguments of its invocation
  payload,      \* per worker: the extraction service's JSON answer
  storage_key,  \* per worker: the derived key (None before it is derived)
  found,        \* per worker: what the existence check answered ("unknown" before)
  calls,        \* per worker: the external operations the invocation has made
  media,        \* per worker: the gathered media metadata (set of fields)
  summary,      \* per worker: status of the summary artifact it emitted
  scratch,      \* per worker: its scratch directories and files that still exist
  result,       \* per worker: the returned storage path (None if none)
  err,          \* per worker: the error the invocation raised
  uploads,      \* history: object key -> number of completed uploads
  first,        \* history: arguments -> the key derived and the path returned (None if
                \* it failed) by the first invocation with them that derived its key
  started,      \* history: number of invocations started
  tool,         \* per worker: how the last run of ffprobe or ffmpeg ended ("none" before)
  rm_failed,    \* per worker: a removal of its scratch entries failed and was swallowed
  kd,           \* a key derivation on its own: its arguments and its outcome
  co,           \* a run of the pipeline flow: where it stands, what it holds
  units         \* the flow runs dispatched to deployments, by run id

vars == <<store, pc, args, payload, storage_key, found, calls, media, summary, scratch,
          result, err, uploads, first, started, tool, rm_failed, kd, co, units>>

flowvars == <<co, units>>

procvars == <<pc, args, payload, storage_key, found, calls, media, summary, scratch, result, err,
              tool, rm_failed>>

\* The bucket at the start: empty, or holding one earlier download.
InitialStores ==
  {<<>>} \cup
  {[k \in {download_storage_key(t, <<"videos">>, <<"video", ".", "mp4">>)} |-> Dummy] :
      t \in TaskIds}

StageInit ==
  /\ store \in InitialStores
  /\ pc = [p \in Procs |-> "idle"]
  /\ args = [p \in Procs |-> NoArgs]
  /\ payload = [p \in Procs |-> NoPayload]
  /\ storage_key = [p \in Procs |-> None]
  /\ found = [p \in Procs |-> "unknown"]
  /\ calls = [p \in Procs |-> <<>>]
  /\ media = [p \in Procs |-> {}]
  /\ summary = [p \in Procs |-> "none"]
  /\ scratch = [p \in Procs |-> {}]
  /\ result = [p \in Procs |-> None]
  /\ err = [p \in Procs |-> NoError]
  /\ tool = [p \in Procs |-> "none"]
  /\ rm_failed = [p \in Procs |-> FALSE]
  /\ uploads = <<>>
  /\ first = <<>>
  /\ started = 0

Init == StageInit /\ kd = NoDerivation /\ co = NoFlow /\ units = <<>>

---------------------------------------------------------------------------
(* helpers of the stages *)

Called(p, op) == \E i \in 1..Len(calls[p]) : calls[p][i] = op

CountOf(k) == IF k \in DOMAIN uploads THEN uploads[k] ELSE 0

\* A faulty variant: an object already at the key is kept.
PutIfAbsent(k, content) ==
  [j \in DOMAIN store \cup {k} |-> IF j \in DOMAIN store THEN store[j] ELSE content]

\* S3 put: the object at the key is created or overwritten.
Put(k, content) == [j \in DOMAIN store \cup {k} |-> IF j = k THEN content ELSE store[j]]

Bump(k) == [j \in DOMAIN uploads \cup {k} |-> IF j = k THEN CountOf(k) + 1 ELSE uploads[j]]

\* S3Bucket._resolve_path with no bucket folder: the key itself.
resolve_path(k) == k

\* A faulty variant: a head request may miss an object that is there.
HeadOutcomesStale(k) ==
  (IF k \in DOMAIN store THEN {"ok"} ELSE {}) \cup NotFoundCodes \cup OtherCodes

\* What a head request on the key can answer.
HeadOutcomes(k) ==
  (IF k \in DOMAIN store THEN {"ok"} ELSE NotFoundCodes) \cup OtherCodes

\* A faulty variant: every failure of the head request is taken as absence.
object_exists_lenient(outcome) ==
  IF outcome = "ok" THEN "true" ELSE "false"

\* A faulty variant: a head request that succeeds is not taken as existence.
object_exists_never(outcome) ==
  IF outcome \in {"ok", "404", "NoSuchKey"} THEN "false" ELSE "raise"

\* MinIOBucket.object_exists on a head outcome: "true", "false" or "raise".
object_exists(outcome) ==
  IF outcome = "ok" THEN "true"
  ELSE IF outcome \in {"404", "NoSuchKey"} THEN "false"
  ELSE "raise"

\* A faulty variant: the condition is inverted.
take_reused_path_inverted(exists) == exists = "false"

\* downloads.py 90: the branch taken on the answer of the existence check.
take_reused_path(exists) == exists = "true"

CobaltError(m) == [type |-> "CobaltDownloadError", msg |-> m]

TemplatedMessage(status) ==
  <<"Unexpected Cobalt status", IF status = Missing THEN "None" ELSE status>>

\* A faulty variant: picker is taken for a status that carries a url.
classify_picker_accepted(pl) ==
  IF pl.status \notin {"tunnel", "redirect", "picker"}
  THEN CobaltError(IF pl.error # Missing THEN <<pl.error>> ELSE TemplatedMessage(pl.status))
  ELSE IF pl.url = Missing \/ pl.url = ""
  THEN CobaltError(<<"missing download URL">>)
  ELSE NoError

\* A faulty variant: only a missing url is rejected, an empty one is not.
classify_url_none_only(pl) ==
  IF pl.status \notin {"tunnel", "redirect"}
  THEN IF pl.status = "picker"
       THEN CobaltError(<<"requires user selection">>)
       ELSE CobaltError(IF pl.error # Missing THEN <<pl.error>>
                        ELSE TemplatedMessage(pl.status))
  ELSE IF pl.url = Missing
  THEN CobaltError(<<"missing download URL">>)
  ELSE NoError

\* A faulty variant: the service's own error message is dropped.
classify_templated_only(pl) ==
  IF pl.status \notin {"tunnel", "redirect"}
  THEN IF pl.status = "picker"
       THEN CobaltError(<<"requires user selection">>)
       ELSE CobaltError(TemplatedMessage(pl.status))
  ELSE IF pl.url = Missing \/ pl.url = ""
  THEN CobaltError(<<"missing download URL">>)
  ELSE NoError

\* A faulty variant: an error field is looked at first, whatever the status.
classify_error_first(pl) ==
  IF pl.error # Missing THEN CobaltError(<<pl.error>>)
  ELSE IF pl.status \notin {"tunnel", "redirect"}
  THEN IF pl.status = "picker"
       THEN CobaltError(<<"requires user selection">>)
       ELSE CobaltError(TemplatedMessage(pl.status))
  ELSE IF pl.url = Missing \/ pl.url = ""
  THEN CobaltError(<<"missing download URL">>)
  ELSE NoError

\* A faulty variant: redirect is not taken for a status that carries a url.
classify_tunnel_only(pl) ==
  IF pl.status # "tunnel"
  THEN IF pl.status = "picker"
       THEN CobaltError(<<"requires user selection">>)
       ELSE CobaltError(IF pl.error # Missing THEN <<pl.error>>
                        ELSE TemplatedMessage(pl.status))
  ELSE IF pl.url = Missing \/ pl.url = ""
  THEN CobaltError(<<"missing download URL">>)
  ELSE NoError

\* A faulty variant: the status is not looked at, only the url.
classify_any_status(pl) ==
  IF pl.url = Missing \/ pl.url = ""
  THEN CobaltError(<<"missing download URL">>)
  ELSE NoError

\* downloads.py 69-82: the error the response is rejected with, NoError if
\* it is accepted.
classify(pl) ==
  IF pl.status \notin {"tunnel", "redirect"}
  THEN IF pl.status = "picker"
       THEN CobaltError(<<"requires user selection">>)
       ELSE CobaltError(IF pl.error # Missing THEN <<pl.error>>
                        ELSE TemplatedMessage(pl.status))
  ELSE IF pl.url = Missing \/ pl.url = ""
  THEN CobaltError(<<"missing download URL">>)
  ELSE NoError

\* A faulty variant: with no object name given, the file is named after the source url.
download_key_by_url(p) ==
  download_storage_key(args[p].task_id,
                       bucket_path_prefix(args[p].minio_bucket_block),
                       IF Truthy(args[p].object_name) THEN args[p].object_name
                       ELSE <<args[p].source_url>>)

\* downloads.py 84-87 for the invocation of worker p.
download_key(p) ==
  download_storage_key(args[p].task_id,
                       bucket_path_prefix(args[p].minio_bucket_block),
                       args[p].object_name)

\* A faulty variant: the exit status of ffprobe is not looked at.
probe_media_metadata_unchecked(outcome) ==
  IF outcome \in {"ok", "tool_failed"} THEN ProbeFields ELSE {}

\* _probe_media_metadata: the fields it yields.
probe_media_metadata(outcome) == IF outcome = "ok" THEN ProbeFields ELSE {}

Raise(p, e) ==
  /\ pc' = [pc EXCEPT ![p] = "failed"]
  /\ err' = [err EXCEPT ![p] = e]

Goto(p, where) ==
  /\ pc' = [pc EXCEPT ![p] = where]
  /\ UNCHANGED err

Call(p, op) == calls' = [calls EXCEPT ![p] = Append(@, op)]

AllIdle == \A q \in Procs : pc[q] = "idle"

\* The service answered the invocation of worker p with a usable url.
Accepted(p) == payload[p] # NoPayload /\ classify(payload[p]) = NoError

---------------------------------------------------------------------------
(* DownloadStage: download_video_asset, one action per await *)

\* A run is handed to the first free worker.
FirstFree(p) == pc[p] = "idle" /\ \A q \in Procs : q < p => pc[q] # "idle"

\* Worker p takes a run with arguments a; its locals are fresh.
Invoke(p, a, first_call) ==
  /\ FirstFree(p)
  /\ started < MaxInvocations
  /\ args' = [args EXCEPT ![p] = a]
  /\ payload' = [payload EXCEPT ![p] = NoPayload]
  /\ found' = [found EXCEPT ![p] = "unknown"]
  /\ calls' = [calls EXCEPT ![p] = <<first_call>>]
  /\ media' = [media EXCEPT ![p] = {}]
  /\ summary' = [summary EXCEPT ![p] = "none"]
  /\ result' = [result EXCEPT ![p] = None]
  /\ err' = [err EXCEPT ![p] = NoError]
  /\ tool' = [tool EXCEPT ![p] = "none"]
  /\ rm_failed' = [rm_failed EXCEPT ![p] = FALSE]
  /\ started' = started + 1
  /\ UNCHANGED <<store, uploads, first, kd, flowvars>>

\* A run that starts when no other is in progress.
StartInvocation(p, a, first_call) ==
  /\ AllIdle
  /\ Invoke(p, a, first_call)

\* The task is called: the blocks are loaded and the POST to the extraction
\* service is sent.  Invocations do not overlap: a worker starts only when
\* every worker is idle.
BeginDownload(p) ==
  /\ \E u \in SourceUrls, t \in TaskIds, b \in BucketBlocks, o \in ObjectNames :
       StartInvocation(p, [kind |-> "download", source_url |-> u, task_id |-> t,
                           minio_bucket_block |-> b, object_name |-> o], "post")
  /\ pc' = [pc EXCEPT ![p] = "post"]
  /\ storage_key' = [storage_key EXCEPT ![p] = None]
  /\ scratch' = [scratch EXCEPT ![p] = {}]

\* The POST fails in transport or with an HTTP error status.
PostFails(p) ==
  /\ pc[p] = "post"
  /\ Raise(p, [type |-> "HTTPError"])
  /\ UNCHANGED <<store, args, payload, storage_key, found, calls, media, summary, scratch,
                 result, uploads, first, started, kd, tool, rm_failed, flowvars>>

\* The POST is answered: the response is classified, and when it is
\* accepted the key is derived and the existence check is sent.
PostAnsweredFrom(p, answers) ==
  /\ pc[p] = "post"
  /\ \E pl \in answers :
       /\ payload' = [payload EXCEPT ![p] = pl]
       /\ IF classify(pl) # NoError
          THEN /\ Raise(p, classify(pl))
               /\ UNCHANGED <<storage_key, calls>>
          ELSE /\ Goto(p, "exists")
               /\ storage_key' = [storage_key EXCEPT ![p] = download_key(p)]
               /\ Call(p, "object_exists")
  /\ UNCHANGED <<store, args, found, media, summary, scratch, result, uploads, first,
                 started, kd, tool, rm_failed, flowvars>>

PostAnswered(p) == PostAnsweredFrom(p, Payloads)

\* The existence check is answered.  Found: the head request is sent.  Not
\* found: the scratch directory is made and the bulk transfer starts.
ExistsAnswered(p) ==
  /\ pc[p] = "exists"
  /\ \E outcome \in HeadOutcomes(storage_key[p]) :
       /\ found' = [found EXCEPT ![p] =
                      IF object_exists(outcome) = "raise" THEN @
                      ELSE object_exists(outcome)]
       /\ CASE object_exists(outcome) = "raise" ->
                 /\ Raise(p, [type |-> "ClientError", code |-> outcome])
                 /\ UNCHANGED <<calls, scratch>>
            [] take_reused_path(object_exists(outcome)) ->
                 /\ Goto(p, "reuse_head")
                 /\ Call(p, "head_object")
                 /\ UNCHANGED scratch
            [] OTHER ->
                 /\ Goto(p, "stream")
                 /\ Call(p, "stream")
                 /\ scratch' = [scratch EXCEPT ![p] = {Dir("cobalt-download-")}]
  /\ UNCHANGED <<store, args, payload, storage_key, media, summary, result, uploads,
                 first, started, kd, tool, rm_failed, flowvars>>

\* Reused path: the head request is answered; _gather_media_metadata makes
\* its scratch directory and reads the object.
ReuseHeadAnswered(p) ==
  /\ pc[p] = "reuse_head"
  /\ \E outcome \in HeadOutcomes(storage_key[p]) :
       IF outcome = "ok"
       THEN /\ Goto(p, "reuse_read")
            /\ media' = [media EXCEPT ![p] = {"size_bytes"}]
            /\ scratch' = [scratch EXCEPT ![p] = {Dir("cobalt-head-probe-")}]
            /\ Call(p, "aread_path")
       ELSE /\ Raise(p, [type |-> "ClientError", code |-> outcome])
            /\ UNCHANGED <<media, scratch, calls>>
  /\ UNCHANGED <<store, args, payload, storage_key, found, summary, result, uploads,
                 first, started, kd, tool, rm_failed, flowvars>>

\* _safe_cleanup_tempfile and the task's own cleanup: what can be left of a
\* scratch directory d and its file when removal errors are swallowed.
Leftovers(d, name) ==
  {{}, {Dir(d)}, {Dir(d), File(d, name)}}

\* Reused path: the read is answered.  On a read error the metadata stay as
\* they are; otherwise the copy is written and probed.  The scratch copy is
\* removed (best effort) and the summary artifact is sent.
ReuseReadAnswered(p) ==
  /\ pc[p] = "reuse_read"
  /\ \/ /\ \E left \in {{}, {Dir("cobalt-head-probe-")}} :
             /\ scratch' = [scratch EXCEPT ![p] = left]
             /\ rm_failed' = [rm_failed EXCEPT ![p] = left # {}]
        /\ tool' = [tool EXCEPT ![p] = "read_failed"]
        /\ UNCHANGED media
     \/ \E outcome \in FileProbeOutcomes,
           left \in Leftovers("cobalt-head-probe-", PathName(storage_key[p])) :
          /\ media' = [media EXCEPT ![p] = @ \cup probe_media_metadata(outcome)]
          /\ tool' = [tool EXCEPT ![p] = outcome]
          /\ scratch' = [scratch EXCEPT ![p] = left]
          /\ rm_failed' = [rm_failed EXCEPT ![p] = left # {}]
  /\ Goto(p, "reuse_emit")
  /\ Call(p, "create_markdown_artifact")
  /\ UNCHANGED <<store, args, payload, storage_key, found, summary, result, uploads,
                 first, started, kd, flowvars>>

\* Reused path: the artifact call is answered; the task returns the
\* resolved path of the key.
ReuseEmitAnswered(p) ==
  /\ pc[p] = "reuse_emit"
  /\ \/ /\ Goto(p, "done")
        /\ summary' = [summary EXCEPT ![p] = "reused"]
        /\ result' = [result EXCEPT ![p] = resolve_path(storage_key[p])]
     \/ /\ Raise(p, [type |-> "ArtifactError"])
        /\ UNCHANGED <<summary, result>>
  /\ UNCHANGED <<store, args, payload, storage_key, found, calls, media, scratch, uploads,
                 first, started, kd, tool, rm_failed, flowvars>>

\* A faulty variant: a transfer that broke off is taken for a complete one.
StreamAnsweredUnchecked(p) ==
  /\ pc[p] = "stream"
  /\ LET f == File("cobalt-download-", file_name_of(args[p].task_id, args[p].object_name))
     IN  \E written \in BOOLEAN :
            /\ Goto(p, "upload")
            /\ scratch' = [scratch EXCEPT ![p] = IF written THEN @ \cup {f} ELSE @]
            /\ Call(p, "upload")
  /\ UNCHANGED <<store, args, payload, storage_key, found, media, summary, result,
                 uploads, first, started, kd, tool, rm_failed, flowvars>>

\* New path: the bulk transfer ends: refused, broken off with part of the
\* file written, or complete, and then the upload is sent.
StreamAnswered(p) ==
  /\ pc[p] = "stream"
  /\ LET f == File("cobalt-download-", file_name_of(args[p].task_id, args[p].object_name))
     IN  \/ /\ Goto(p, "upload")
            /\ scratch' = [scratch EXCEPT ![p] = @ \cup {f}]
            /\ Call(p, "upload")
         \/ /\ Raise(p, [type |-> "HTTPError"])
            /\ \E written \in BOOLEAN :
                 scratch' = [scratch EXCEPT ![p] = IF written THEN @ \cup {f} ELSE @]
            /\ UNCHANGED calls
  /\ UNCHANGED <<store, args, payload, storage_key, found, media, summary, result,
                 uploads, first, started, kd, tool, rm_failed, flowvars>>

\* New path: the upload ends.  Complete: the object is in the bucket and the
\* head request is sent.
UploadAnswered(p) ==
  /\ pc[p] = "upload"
  /\ \/ /\ Goto(p, "new_head")
        /\ store' = Put(storage_key[p], payload[p].url)
        /\ uploads' = Bump(storage_key[p])
        /\ Call(p, "head_object")
     \/ /\ Raise(p, [type |-> "ClientError", code |-> "500"])
        /\ UNCHANGED <<store, uploads, calls>>
  /\ UNCHANGED <<args, payload, storage_key, found, media, summary, scratch, result,
                 first, started, kd, tool, rm_failed, flowvars>>

\* New path: the head request is answered; the local copy is probed and
\* the summary artifact is sent.
NewHeadAnswered(p) ==
  /\ pc[p] = "new_head"
  /\ \E outcome \in HeadOutcomes(storage_key[p]) :
       IF outcome = "ok"
       THEN /\ Goto(p, "new_emit")
            /\ \E probe \in FileProbeOutcomes :
                 /\ media' = [media EXCEPT ![p] =
                                {"size_bytes"} \cup probe_media_metadata(probe)]
                 /\ tool' = [tool EXCEPT ![p] = probe]
            /\ Call(p, "create_markdown_artifact")
       ELSE /\ Raise(p, [type |-> "ClientError", code |-> outcome])
            /\ UNCHANGED <<media, calls, tool>>
  /\ UNCHANGED <<store, args, payload, storage_key, found, summary, scratch, result,
                 uploads, first, started, rm_failed, kd, flowvars>>

\* New path: the artifact call is answered; the scratch file and directory
\* are removed (best effort) and the task returns the uploaded path, which
\* the bucket gives as the key it stored under.
NewEmitAnswered(p) ==
  /\ pc[p] = "new_emit"
  /\ \/ /\ Goto(p, "done")
        /\ summary' = [summary EXCEPT ![p] = "new"]
        /\ result' = [result EXCEPT ![p] = storage_key[p]]
        /\ \E left \in Leftovers("cobalt-download-",
                                 file_name_of(args[p].task_id, args[p].object_name)) :
             /\ scratch' = [scratch EXCEPT ![p] = left]
             /\ rm_failed' = [rm_failed EXCEPT ![p] = left # {}]
     \/ /\ Raise(p, [type |-> "ArtifactError"])
        /\ UNCHANGED <<summary, result, scratch, rm_failed>>
  /\ UNCHANGED <<store, args, payload, storage_key, found, calls, media, uploads,
                 first, started, tool, kd, flowvars>>

\* The invocation is over: its outcome goes to the caller and the worker is
\* free again.
Finish(p) ==
  /\ pc[p] \in {"done", "failed"}
  /\ pc' = [pc EXCEPT ![p] = "idle"]
  /\ first' = IF storage_key[p] # None /\ args[p] \notin DOMAIN first
              THEN [a \in DOMAIN first \cup {args[p]} |->
                      IF a = args[p] THEN [key |-> storage_key[p], path |-> result[p]]
                      ELSE first[a]]
              ELSE first
  /\ args' = [args EXCEPT ![p] = NoArgs]
  /\ payload' = [payload EXCEPT ![p] = NoPayload]
  /\ storage_key' = [storage_key EXCEPT ![p] = None]
  /\ found' = [found EXCEPT ![p] = "unknown"]
  /\ calls' = [calls EXCEPT ![p] = <<>>]
  /\ media' = [media EXCEPT ![p] = {}]
  /\ summary' = [summary EXCEPT ![p] = "none"]
  /\ scratch' = [scratch EXCEPT ![p] = {}]
  /\ result' = [result EXCEPT ![p] = None]
  /\ err' = [err EXCEPT ![p] = NoError]
  /\ tool' = [tool EXCEPT ![p] = "none"]
  /\ rm_failed' = [rm_failed EXCEPT ![p] = FALSE]
  /\ UNCHANGED <<store, uploads, started, kd, flowvars>>

---------------------------------------------------------------------------
(* AudioExtractionStage: extract_audio_asset, one action per await *)

\* The stored videos the stage is pointed at: the keys DownloadStage writes.
AudioSources ==
  {download_storage_key(t, bucket_path_prefix(b), o) :
     t \in TaskIds, b \in BucketBlocks, o \in ObjectNames}

AudioNames == {None, <<"out", ".", "mka">>}

\* audio.py 93-98 for an invocation with arguments a: the full storage key.
audio_key(a) ==
  derive_storage_key(a.source_object_path, a.task_id,
                     bucket_path_prefix(a.minio_bucket_block), a.object_name)[2]

\* audio.py 101-103: the scratch copy of the source and the output file.
source_path(p) == File("audio-extract-", PathName(args[p].source_object_path))
audio_path(p) == File("audio-extract-", PathName(storage_key[p]))

\* A faulty variant: nothing is removed.
CleanupSkipped(p, files) == UNCHANGED <<scratch, rm_failed>>

\* audio.py 167-178: the finally block removes what exists of the two
\* files, then the directory; every removal error is swallowed, and the
\* directory stays when a file stays.
Cleanup(p, files) ==
  \E kept \in SUBSET files, dir_stays \in BOOLEAN :
    /\ scratch' = [scratch EXCEPT ![p] =
                     IF kept # {} \/ dir_stays
                     THEN kept \cup {Dir("audio-extract-")} ELSE {}]
    /\ rm_failed' = [rm_failed EXCEPT ![p] = kept # {} \/ dir_stays]

\* The task is called: the blocks are loaded, the key is derived, the
\* scratch directory is made and the download of the source is sent.
BeginAudio(p) ==
  /\ \E s \in AudioSources, t \in TaskIds, b \in BucketBlocks, o \in AudioNames :
       LET a == [kind |-> "audio", source_object_path |-> s, task_id |-> t,
                 minio_bucket_block |-> b, object_name |-> o]
       IN  /\ StartInvocation(p, a, "download_object")
           /\ storage_key' = [storage_key EXCEPT ![p] = audio_key(a)]
  /\ pc' = [pc EXCEPT ![p] = "a_fetch"]
  /\ scratch' = [scratch EXCEPT ![p] = {Dir("audio-extract-")}]

\* The download of the source ends.  Complete: ffmpeg is run.
FetchAnswered(p) ==
  /\ pc[p] = "a_fetch"
  /\ \/ /\ args[p].source_object_path \in DOMAIN store
        /\ Goto(p, "a_ffmpeg")
        /\ scratch' = [scratch EXCEPT ![p] = @ \cup {source_path(p)}]
        /\ Call(p, "ffmpeg")
        /\ UNCHANGED rm_failed
     \/ /\ Raise(p, [type |-> "ClientError",
                     code |-> IF args[p].source_object_path \in DOMAIN store
                              THEN "403" ELSE "404"])
        /\ \E written \in BOOLEAN :
             Cleanup(p, IF written THEN {source_path(p)} ELSE {})
        /\ UNCHANGED calls
  /\ UNCHANGED <<store, args, payload, storage_key, found, media, summary, result,
                 uploads, first, started, tool, kd, flowvars>>

\* A faulty variant: only the exit status is looked at, not the output file.
validate_exit_status_only(outcome) ==
  CASE outcome = "not_found" ->
         [type |-> "AudioExtractionError", msg |-> <<"FFmpeg binary not found in PATH">>]
    [] outcome = "nonzero" ->
         [type |-> "AudioExtractionError", msg |-> <<"FFmpeg failed with exit code", "stderr">>]
    [] outcome = "nonzero_silent" ->
         [type |-> "AudioExtractionError",
          msg |-> <<"FFmpeg failed with exit code", "Unknown FFmpeg error">>]
    [] OTHER -> NoError

\* audio.py 126-144: the error a run of ffmpeg is rejected with, NoError
\* when its output is accepted.
validate(outcome) ==
  CASE outcome = "not_found" ->
         [type |-> "AudioExtractionError", msg |-> <<"FFmpeg binary not found in PATH">>]
    [] outcome = "nonzero" ->
         [type |-> "AudioExtractionError", msg |-> <<"FFmpeg failed with exit code", "stderr">>]
    [] outcome = "nonzero_silent" ->
         [type |-> "AudioExtractionError",
          msg |-> <<"FFmpeg failed with exit code", "Unknown FFmpeg error">>]
    [] outcome \in {"no_output", "empty_output"} ->
         [type |-> "AudioExtractionError",
          msg |-> <<"FFmpeg did not produce an audio artifact">>]
    [] OTHER -> NoError

\* The files a run of ffmpeg leaves in the scratch directory beside the
\* source: the output file, unless it wrote none.
Written(p, outcome) ==
  IF outcome \in {"empty_output", "ok"} THEN {{audio_path(p)}}
  ELSE IF outcome \in {"nonzero", "nonzero_silent"} THEN {{}, {audio_path(p)}}
  ELSE {{}}

\* ffmpeg has run: its result is validated, and a valid output is uploaded.
FfmpegAnswered(p) ==
  /\ pc[p] = "a_ffmpeg"
  /\ \E outcome \in FfmpegOutcomes :
       \E out \in Written(p, outcome) :
         /\ tool' = [tool EXCEPT ![p] = outcome]
         /\ IF validate(outcome) = NoError
            THEN /\ Goto(p, "a_upload")
                 /\ scratch' = [scratch EXCEPT ![p] = @ \cup out]
                 /\ Call(p, "upload")
                 /\ UNCHANGED rm_failed
            ELSE /\ Raise(p, validate(outcome))
                 /\ Cleanup(p, {source_path(p)} \cup out)
                 /\ UNCHANGED calls
  /\ UNCHANGED <<store, args, payload, storage_key, found, media, summary, result,
                 uploads, first, started, kd, flowvars>>

\* The upload ends.  Complete: the audio object is in the bucket and the
\* head request is sent.
AudioUploadAnswered(p) ==
  /\ pc[p] = "a_upload"
  /\ \/ /\ Goto(p, "a_head")
        /\ store' = Put(storage_key[p], AudioTrack)
        /\ uploads' = Bump(storage_key[p])
        /\ Call(p, "head_object")
        /\ UNCHANGED <<scratch, rm_failed>>
     \/ /\ Raise(p, [type |-> "ClientError", code |-> "500"])
        /\ Cleanup(p, {source_path(p), audio_path(p)})
        /\ UNCHANGED <<store, uploads, calls>>
  /\ UNCHANGED <<args, payload, storage_key, found, media, summary, result, first, started,
                 tool, kd, flowvars>>

\* The head request is answered; the summary artifact is sent.
AudioHeadAnswered(p) ==
  /\ pc[p] = "a_head"
  /\ \E outcome \in HeadOutcomes(storage_key[p]) :
       IF outcome = "ok"
       THEN /\ Goto(p, "a_emit")
            /\ Call(p, "create_markdown_artifact")
            /\ UNCHANGED <<scratch, rm_failed>>
       ELSE /\ Raise(p, [type |-> "ClientError", code |-> outcome])
            /\ Cleanup(p, {source_path(p), audio_path(p)})
            /\ UNCHANGED calls
  /\ UNCHANGED <<store, args, payload, storage_key, found, media, summary, result,
                 uploads, first, started, tool, kd, flowvars>>

\* The artifact call is answered; the task returns the uploaded path, and
\* the finally block cleans up.
AudioEmitAnswered(p) ==
  /\ pc[p] = "a_emit"
  /\ \/ /\ Goto(p, "done")
        /\ summary' = [summary EXCEPT ![p] = "audio"]
        /\ result' = [result EXCEPT ![p] = storage_key[p]]
     \/ /\ Raise(p, [type |-> "ArtifactError"])
        /\ UNCHANGED <<summary, result>>
  /\ Cleanup(p, {source_path(p), audio_path(p)})
  /\ UNCHANGED <<store, args, payload, storage_key, found, calls, media, uploads,
                 first, started, tool, kd, flowvars>>

---------------------------------------------------------------------------

Next ==
  \E p \in Procs :
    \/ BeginDownload(p)
    \/ PostFails(p)
    \/ PostAnswered(p)
    \/ ExistsAnswered(p)
    \/ ReuseHeadAnswered(p)
    \/ ReuseReadAnswered(p)
    \/ ReuseEmitAnswered(p)
    \/ StreamAnswered(p)
    \/ UploadAnswered(p)
    \/ NewHeadAnswered(p)
    \/ NewEmitAnswered(p)
    \/ BeginAudio(p)
    \/ FetchAnswered(p)
    \/ FfmpegAnswered(p)
    \/ AudioUploadAnswered(p)
    \/ AudioHeadAnswered(p)
    \/ AudioEmitAnswered(p)
    \/ Finish(p)

Spec == Init /\ [][Next]_vars

---------------------------------------------------------------------------
(* DownloadStage with runs that overlap: nothing in download_video_asset
   waits for another run, so a second worker may start a run while the first
   is at any of its awaits. *)

OtherDownloadUrl == "http://download.test/other"

\* The service's answers in the overlapping runs: two distinct files, and a
\* rejection.
OverlapPayloads ==
  [status : {"redirect", "picker"},
   url    : {DownloadUrl, OtherDownloadUrl},
   error  : {Missing}]

\* Runs on the same task and object name, hence on the same key.
OverlapArgs ==
  [kind : {"download"}, source_url : SourceUrls, task_id : {<<"task-123">>},
   minio_bucket_block : {"minio-videos"}, object_name : {<<"video", ".", "mp4">>}]

\* The task is called, whatever the other worker is doing.
BeginOverlapping(p) ==
  /\ \E a \in OverlapArgs : Invoke(p, a, "post")
  /\ pc' = [pc EXCEPT ![p] = "post"]
  /\ storage_key' = [storage_key EXCEPT ![p] = None]
  /\ scratch' = [scratch EXCEPT ![p] = {}]

OverlapPostAnswered(p) == PostAnsweredFrom(p, OverlapPayloads)

OverlapNext ==
  \E p \in Procs :
    \/ BeginOverlapping(p)
    \/ PostFails(p)
    \/ OverlapPostAnswered(p)
    \/ ExistsAnswered(p)
    \/ ReuseHeadAnswered(p)
    \/ ReuseReadAnswered(p)
    \/ ReuseEmitAnswered(p)
    \/ StreamAnswered(p)
    \/ UploadAnswered(p)
    \/ NewHeadAnswered(p)
    \/ NewEmitAnswered(p)
    \/ Finish(p)

SpecOverlap == Init /\ [][OverlapNext]_vars

---------------------------------------------------------------------------
(* The key derivations on their own, over a wider range of arguments *)

KeyTaskIds == {<<"task-123">>, <<"t2">>}

\* Bucket prefixes: none, empty, plain, with leading or trailing slashes,
\* the lone slash, nested.
KeyPrefixes ==
  {None, <<>>, <<"videos">>, <<"videos", "/">>, <<"/", "videos">>,
   <<"/", "videos", "/">>, <<"/">>, <<"a", "/", "b">>}

KeyObjectNames == {None, <<>>, <<"video", ".", "mp4">>}

\* Names that override the audio file name: none, empty, a file name, an
\* absolute path, and the name of a source file.
KeyAudioNames ==
  {None, <<>>, <<"out", ".", "mka">>, <<"/", "out", ".", "mka">>, <<"video", ".", "mp4">>}

\* Source files as stem and extension, and the directories they lie in
\* (<<>> for none).
KeyFiles ==
  {[stem |-> <<"video">>, ext |-> <<"mp4">>],
   [stem |-> <<"clip", ".", "tar">>, ext |-> <<"gz">>]}
KeyDirs == {<<>>, <<"videos">>, <<"a", "/", "b">>}

\* dir/stem.ext, or stem.ext when there is no directory.
RelPath(d, f) ==
  (IF d = <<>> THEN <<>> ELSE d \o <<"/">>) \o f.stem \o <<".">> \o f.ext

\* The source keys handed to the audio derivation: the relative paths, bare
\* and under download/ and under <task_id>/download/, and a few odd ones,
\* the last a key that begins with a slash.
KeySources ==
  UNION {{RelPath(d, f),
          <<"download", "/">> \o RelPath(d, f),
          <<"task-123", "/", "download", "/">> \o RelPath(d, f)} :
            d \in KeyDirs, f \in KeyFiles}
  \cup {<<>>, <<"task-123", "/", "download">>, <<"video">>,
        <<"task-123", "/", "download", "/", "/", "video", ".", "mp4">>,
        <<"/", "out", ".", "mka">>}

KeyInit ==
  /\ StageInit
  /\ co = NoFlow /\ units = <<>>
  /\ \/ \E t \in KeyTaskIds, x \in KeyPrefixes, o \in KeyObjectNames :
          kd = [fn |-> "download", task_id |-> t, prefix |-> x, object_name |-> o,
                out |-> <<>>]
     \/ \E s \in KeySources, t \in KeyTaskIds, x \in KeyPrefixes, o \in KeyAudioNames :
          kd = [fn |-> "audio", source_object_path |-> s, task_id |-> t,
                prefix |-> x, object_name |-> o, out |-> <<>>]

\* downloads.py 84-87 applied to the arguments.
DeriveDownloadKey ==
  /\ kd.fn = "download" /\ kd.out = <<>>
  /\ kd' = [kd EXCEPT !.out =
              <<download_storage_key(kd.task_id, kd.prefix, kd.object_name)>>]
  /\ UNCHANGED <<store, procvars, uploads, first, started, flowvars>>

\* _derive_storage_key applied to the arguments.
DeriveAudioKey ==
  /\ kd.fn = "audio" /\ kd.out = <<>>
  /\ kd' = [kd EXCEPT !.out =
              derive_storage_key(kd.source_object_path, kd.task_id, kd.prefix,
                                 kd.object_name)]
  /\ UNCHANGED <<store, procvars, uploads, first, started, flowvars>>

KeyNext == DeriveDownloadKey \/ DeriveAudioKey

SpecKey == KeyInit /\ [][KeyNext]_vars

---------------------------------------------------------------------------
(* The probe on its own: _probe_media_metadata on what ffprobe printed *)

\* The format section of ffprobe's JSON: each entry is there or not.
ProbeFormats ==
  [duration : {Missing, "12.5"}, size : {Missing, "1024"}, bit_rate : {Missing, "800"}]

\* The first video stream: each entry is there or not; a frame rate can be
\* the literal 0/0.
ProbeStreams ==
  [codec_name : {Missing, "h264"}, width : {Missing, "1920"}, height : {Missing, "1080"},
   avg_frame_rate : {Missing, "0/0", "30/1"}, bit_rate : {Missing, "700"}]

\* Well-formed output of ffprobe: a format section and no stream or one.
ProbeData ==
  [format : ProbeFormats, streams : {<<>>} \cup {<<st>> : st \in ProbeStreams}]

\* dict.get(key): the value, None when the entry is not there.
dict_get(v) == IF v = Missing THEN None ELSE <<v>>

\* The entry key: value when the condition of its if holds, nothing otherwise.
EntryIf(cond, key, value) == IF cond THEN {<<key, value>>} ELSE {}

\* downloads.py 188-209: the mapping built from the parsed output, as the
\* set of its <<key, value>> entries.
probe_result(data) ==
  LET fmt == data.format
      of_format ==
        EntryIf(fmt.duration # Missing, "duration_seconds", <<fmt.duration>>)
        \cup EntryIf(fmt.size # Missing, "size_bytes", <<fmt.size>>)
        \cup EntryIf(fmt.bit_rate # Missing, "bitrate", <<fmt.bit_rate>>)
      of_stream ==
        IF data.streams = <<>> THEN {}
        ELSE LET stream == data.streams[1]
             IN  {<<"codec", dict_get(stream.codec_name)>>}
                 \cup EntryIf(Truthy(dict_get(stream.width)) /\ Truthy(dict_get(stream.height)),
                              "resolution", <<stream.width, "x", stream.height>>)
                 \cup EntryIf(Truthy(dict_get(stream.avg_frame_rate))
                                /\ stream.avg_frame_rate # "0/0",
                              "frame_rate", <<stream.avg_frame_rate>>)
                 \cup EntryIf(Truthy(dict_get(stream.bit_rate)),
                              "video_bitrate", <<stream.bit_rate>>)
  IN  of_format \cup of_stream

ProbeInit ==
  /\ StageInit
  /\ co = NoFlow /\ units = <<>>
  /\ \E data \in ProbeData : kd = [fn |-> "probe", data |-> data, out |-> <<>>]

\* _probe_media_metadata applied to the parsed output.
ProbeParsed ==
  /\ kd.fn = "probe" /\ kd.out = <<>>
  /\ kd' = [kd EXCEPT !.out = <<probe_result(kd.data)>>]
  /\ UNCHANGED <<store, procvars, uploads, first, started, flowvars>>

ProbeNext == ProbeParsed

SpecProbe == ProbeInit /\ [][ProbeNext]_vars

---------------------------------------------------------------------------
(* PipelineCoordinator: video_pipeline_flow and the flow runs it dispatches *)

DownloadDeployment == "cobalt-video-download/cobalt-download-worker"
AudioDeployment == "audio-extraction/audio-processing"

\* Python values that flow runs return: a str, or a dict with str keys.
PyStr(v) == [py |-> "str", v |-> v]
NoValue == [py |-> "none"]
NoRecord == [download_flow_run_id |-> "none"]

\* The arguments of a run of the pipeline flow.
FlowArgs ==
  [source_url : SourceUrls, task_id : TaskIds, minio_bucket_block : BucketBlocks,
   object_name : ObjectNames]

\* The errors a download flow run can end with.
UnitErrors ==
  {[type |-> "HTTPError"], [type |-> "CobaltDownloadError"], [type |-> "ClientError"],
   [type |-> "ArtifactError"]}

\* What a completed run of cobalt_video_download_flow returns: the path that
\* download_video_asset returned, a str.
cobalt_video_download_flow(parameters) ==
  PyStr(resolve_path(download_storage_key(parameters.task_id,
                                          bucket_path_prefix(parameters.minio_bucket_block),
                                          parameters.object_name)))

\* What a completed run of audio_extraction_flow returns: the audio key.
audio_extraction_flow(parameters) ==
  PyStr(derive_storage_key(parameters.source_object_path, parameters.task_id,
                           bucket_path_prefix(parameters.minio_bucket_block), None)[2])

\* A faulty variant: a failed run's error is handed back as a value.
aresult_no_raise(unit) ==
  IF unit.state = "COMPLETED" THEN [ok |-> TRUE, v |-> unit.result]
  ELSE [ok |-> TRUE, v |-> [py |-> "exception", v |-> unit.error]]

\* State.aresult() with raise_on_failure left at True: the result of a
\* completed run, the error of a failed or crashed one, raised.
aresult(unit) ==
  IF unit.state = "COMPLETED" THEN [ok |-> TRUE, v |-> unit.result]
  ELSE [ok |-> FALSE, error |-> unit.error]

\* value[key] in Python: the entry of a dict; a str takes no str index.
getitem(value, key) ==
  CASE value.py = "dict" /\ key \in DOMAIN value.v -> [ok |-> TRUE, v |-> value.v[key]]
    [] value.py = "dict" -> [ok |-> FALSE, error |-> [type |-> "KeyError"]]
    [] OTHER -> [ok |-> FALSE, error |-> [type |-> "TypeError"]]

FlowInit ==
  /\ StageInit
  /\ kd = NoDerivation
  /\ units = <<>>
  /\ \E a \in FlowArgs :
       co = [pc |-> "start", args |-> a, download_run |-> 0, download_state |-> "none",
             download_result |-> NoValue, out |-> NoRecord, err |-> NoError]

NewRun(deployment, parameters) ==
  [deployment |-> deployment, parameters |-> parameters, state |-> "SCHEDULED",
   result |-> NoValue, error |-> NoError]

\* stevedore.py 23-34: run_deployment with timeout=0 creates the download
\* run and returns at once; the flow then waits for the run.
DispatchDownload ==
  /\ co.pc = "start"
  /\ units' = Append(units, NewRun(DownloadDeployment, co.args))
  /\ co' = [co EXCEPT !.pc = "wait", !.download_run = Len(units) + 1]
  /\ UNCHANGED <<store, procvars, uploads, first, started, kd>>

\* A worker has run a scheduled flow run to its end: completed with the
\* flow's return value (a download having stored the video), failed with the
\* error the flow raised, or crashed.
FlowRunEnds(u) ==
  /\ units[u].state = "SCHEDULED"
  /\ LET run == units[u]
         ret == IF run.deployment = DownloadDeployment
                THEN cobalt_video_download_flow(run.parameters)
                ELSE audio_extraction_flow(run.parameters)
         content == IF run.deployment = DownloadDeployment THEN DownloadUrl ELSE AudioTrack
     IN  \/ /\ units' = [units EXCEPT ![u].state = "COMPLETED", ![u].result = ret]
            /\ IF run.deployment = DownloadDeployment /\ ret.v \in DOMAIN store
               THEN UNCHANGED <<store, uploads>>
               ELSE store' = Put(ret.v, content) /\ uploads' = Bump(ret.v)
         \/ /\ \E e \in UnitErrors :
                 units' = [units EXCEPT ![u].state = "FAILED", ![u].error = e]
            /\ UNCHANGED <<store, uploads>>
         \/ /\ units' = [units EXCEPT ![u].state = "CRASHED",
                                      ![u].error = [type |-> "CrashedRun"]]
            /\ UNCHANGED <<store, uploads>>
  /\ UNCHANGED <<procvars, first, started, kd, co>>

\* stevedore.py 36: wait_for_flow_run gives up on a run that stays unfinished.
WaitTimesOut ==
  /\ co.pc = "wait"
  /\ units[co.download_run].state = "SCHEDULED"
  /\ co' = [co EXCEPT !.pc = "failed", !.err = [type |-> "FlowRunWaitTimeout"]]
  /\ UNCHANGED <<store, procvars, uploads, first, started, kd, units>>

\* stevedore.py 36-38: the download run is final; its state and result are
\* taken, or its error is raised.
WaitReturns ==
  /\ co.pc = "wait"
  /\ units[co.download_run].state # "SCHEDULED"
  /\ LET run == units[co.download_run]
         r   == aresult(run)
     IN  co' = IF r.ok
               THEN [co EXCEPT !.pc = "dispatch_audio", !.download_state = run.state,
                               !.download_result = r.v]
               ELSE [co EXCEPT !.pc = "failed", !.download_state = run.state,
                               !.err = r.error]
  /\ UNCHANGED <<store, procvars, uploads, first, started, kd, units>>

\* stevedore.py 40-55: the parameters of the audio run are built from the
\* download result, run_deployment with timeout=0 creates the run, and the
\* record of run ids and download state is returned.
DispatchAudio ==
  /\ co.pc = "dispatch_audio"
  /\ LET video == getitem(co.download_result, "video")
     IN  IF video.ok
         THEN /\ units' = Append(units, NewRun(AudioDeployment,
                                  [source_object_path |-> video.v,
                                   task_id |-> co.args.task_id,
                                   minio_bucket_block |-> co.args.minio_bucket_block]))
              /\ co' = [co EXCEPT !.pc = "returned",
                                  !.out = [download_flow_run_id |-> co.download_run,
                                           download_state |-> co.download_state,
                                           audio_flow_run_id |-> Len(units) + 1]]
         ELSE /\ co' = [co EXCEPT !.pc = "failed", !.err = video.error]
              /\ UNCHANGED units
  /\ UNCHANGED <<store, procvars, uploads, first, started, kd>>

FlowNext ==
  \/ DispatchDownload
  \/ \E u \in DOMAIN units : FlowRunEnds(u)
  \/ WaitTimesOut
  \/ WaitReturns
  \/ DispatchAudio

SpecFlow == FlowInit /\ [][FlowNext]_vars

---------------------------------------------------------------------------
(* Properties of the download stage, under Spec *)

IsDownload(p) == args[p].kind = "download"

\* The invocation of worker p is over: it returned or it raised.
Terminated(p) == pc[p] \in {"done", "failed"}

\* The invocation of worker p has the extraction service's answer.
Answered(p) == IsDownload(p) /\ payload[p] # NoPayload

NumCalls(p, op) == Cardinality({i \in 1..Len(calls[p]) : calls[p][i] = op})

\* An earlier invocation with the arguments of worker p returned a path.
ReturnedBefore(p) == args[p] \in DOMAIN first /\ first[args[p]].path # None

\* C1, as stated: over invocations with identical arguments that the service
\* accepts, exactly one upload to the key happens in total, and every
\* invocation after the first returns the first one's path and is 'reused'.
ExactlyOneUploadEver ==
  \A p \in Procs :
     (IsDownload(p) /\ pc[p] = "done") =>
        /\ CountOf(storage_key[p]) = 1
        /\ args[p] \in DOMAIN first =>
              /\ summary[p] = "reused"
              /\ first[args[p]].path # None => result[p] = first[args[p]].path

\* C1, amended: at most one upload to the key completes in total, none when
\* the store held an object at the key from the start, exactly one by the
\* time an invocation returns otherwise; and once an invocation has
\* returned, every later one with the same arguments makes no bulk download
\* and no upload and, when it returns, returns the same path as 'reused'.
AtMostOneUpload ==
  \A p \in Procs :
     (IsDownload(p) /\ storage_key[p] # None) =>
        LET k == storage_key[p]
            preexisting == k \in DOMAIN store /\ store[k] = Dummy
        IN  /\ CountOf(k) <= 1
            /\ preexisting => CountOf(k) = 0
            /\ pc[p] = "done" =>
                  /\ k \in DOMAIN store
                  /\ preexisting \/ CountOf(k) = 1
            /\ ReturnedBefore(p) =>
                  /\ ~Called(p, "stream")
                  /\ ~Called(p, "upload")
                  /\ pc[p] = "done" =>
                        /\ summary[p] = "reused"
                        /\ result[p] = first[args[p]].path

\* A second invocation has returned the first one's path, after one upload.
SecondCallReused ==
  \E p \in Procs :
     /\ IsDownload(p) /\ pc[p] = "done"
     /\ ReturnedBefore(p)
     /\ summary[p] = "reused"
     /\ result[p] = first[args[p]].path
     /\ CountOf(storage_key[p]) = 1

\* What holds of an invocation whose existence check found an object.
ReusedPathShape(p) ==
  /\ ~Called(p, "stream")
  /\ ~Called(p, "upload")
  /\ scratch[p] \cap {Dir("cobalt-download-")} = {}
  /\ summary[p] \in {"none", "reused"}
  /\ pc[p] = "done" =>
        /\ summary[p] = "reused"
        /\ result[p] = resolve_path(storage_key[p])
  /\ pc[p] = "failed" => err[p].type \in {"ClientError", "ArtifactError"}

\* The existence check comes first among the storage and transfer calls.
CheckedFirst(p) ==
  \A i \in 1..Len(calls[p]) :
     calls[p][i] \in {"stream", "upload", "head_object", "aread_path"} =>
        \E j \in 1..(i - 1) : calls[p][j] = "object_exists"

\* C2: in one invocation the existence check on the key precedes any bulk
\* download or upload; when it finds an object the invocation makes no bulk
\* download and no upload, leaves the store as it is, emits the 'reused'
\* summary and returns the resolved path of the key.
ExistenceCheckedFirst ==
  /\ [](\A p \in Procs : IsDownload(p) =>
           /\ CheckedFirst(p)
           /\ found[p] = "true" => ReusedPathShape(p))
  /\ [][\A p \in Procs : (IsDownload(p) /\ found[p] = "true") =>
           (store' = store /\ uploads' = uploads)]_vars

\* An invocation that found the object has returned.
ReusedReturned ==
  \E p \in Procs :
     /\ IsDownload(p) /\ found[p] = "true" /\ pc[p] = "done"
     /\ summary[p] = "reused"
     /\ result[p] = storage_key[p]
     /\ NumCalls(p, "object_exists") = 1

ExampleArgs(a) ==
  /\ a.kind = "download"
  /\ a.task_id = <<"task-123">>
  /\ a.object_name = <<"video", ".", "mp4">>
  /\ bucket_path_prefix(a.minio_bucket_block) = <<"videos">>

ExamplePath ==
  <<"task-123", "/", "download", "/", "videos", "/", "video", ".", "mp4">>

\* C3: when the service answers tunnel or redirect with a url and no object
\* is at the key, an invocation that meets no error makes exactly one
\* upload, to the key, emits the 'new' summary and returns the path of the
\* key, the store then holding the object there; for task-123, video.mp4
\* and prefix videos the path is task-123/download/videos/video.mp4.
NewPathUploadsOnce ==
  \A p \in Procs :
     (IsDownload(p) /\ found[p] = "false" /\ pc[p] = "done") =>
        /\ NumCalls(p, "upload") = 1
        /\ NumCalls(p, "stream") = 1
        /\ summary[p] = "new"
        /\ result[p] = storage_key[p]
        /\ storage_key[p] \in DOMAIN store
        /\ store[storage_key[p]] = payload[p].url
        /\ CountOf(storage_key[p]) >= 1
        /\ ExampleArgs(args[p]) => result[p] = ExamplePath

\* The download example has returned on the new path.
ExampleUploaded ==
  \E p \in Procs :
     /\ IsDownload(p) /\ ExampleArgs(args[p])
     /\ found[p] = "false" /\ pc[p] = "done"
     /\ result[p] = ExamplePath
     /\ ExamplePath \in DOMAIN store
     /\ summary[p] = "new"

\* An invocation rejected on the service's answer: it failed with the
\* protocol error and made no call but the one to the service.
Rejected(p, message) ==
  /\ pc[p] = "failed"
  /\ err[p] = [type |-> "CobaltDownloadError", msg |-> message]
  /\ calls[p] = <<"post">>
  /\ storage_key[p] = None
  /\ result[p] = None

IsPicker(pl) == pl # NoPayload /\ pl.status = "picker"

\* C4: a response with status picker always fails the invocation with
\* CobaltDownloadError, with no existence check, no bulk download and no
\* upload; the store is unchanged.
PickerRejected ==
  /\ [](\A p \in Procs : (Answered(p) /\ IsPicker(payload[p])) =>
           Rejected(p, <<"requires user selection">>))
  /\ [][\A p \in Procs : (IsPicker(payload[p]) \/ IsPicker(payload'[p])) =>
           (store' = store /\ uploads' = uploads)]_vars

\* A picker answer has failed an invocation.
PickerSeen ==
  \E p \in Procs :
     /\ Answered(p) /\ IsPicker(payload[p])
     /\ pc[p] = "failed" /\ err[p].type = "CobaltDownloadError"

IsUrlLess(pl) ==
  pl # NoPayload /\ pl.status \in {"tunnel", "redirect"} /\ pl.url \in {Missing, ""}

\* C5: a response with status tunnel or redirect and a missing or empty url
\* fails the invocation with CobaltDownloadError before any storage access:
\* no existence check, no download, no upload, store unchanged.
MissingUrlRejected ==
  /\ [](\A p \in Procs : (Answered(p) /\ IsUrlLess(payload[p])) =>
           Rejected(p, <<"missing download URL">>))
  /\ [][\A p \in Procs : (IsUrlLess(payload[p]) \/ IsUrlLess(payload'[p])) =>
           (store' = store /\ uploads' = uploads)]_vars

\* An answer with an empty url has failed an invocation.
EmptyUrlSeen ==
  \E p \in Procs :
     /\ Answered(p) /\ payload[p].status = "redirect" /\ payload[p].url = ""
     /\ pc[p] = "failed" /\ err[p].type = "CobaltDownloadError"

\* C6: for every response whose status is none of tunnel, redirect, picker
\* (a missing status included) the invocation fails with CobaltDownloadError,
\* carrying the response's error message when it has an error field and the
\* templated 'unexpected status' message naming the status otherwise; no
\* download or upload is attempted.
OtherStatusRejected ==
  \A p \in Procs :
     (Answered(p) /\ payload[p].status \notin {"tunnel", "redirect", "picker"}) =>
        /\ pc[p] = "failed"
        /\ err[p].type = "CobaltDownloadError"
        /\ payload[p].error # Missing => err[p].msg = <<payload[p].error>>
        /\ payload[p].error = Missing =>
              err[p].msg = <<"Unexpected Cobalt status",
                             IF payload[p].status = Missing THEN "None"
                             ELSE payload[p].status>>
        /\ ~Called(p, "stream")
        /\ ~Called(p, "upload")

\* An answer without status and without error field has failed an
\* invocation with the templated message.
TemplatedSeen ==
  \E p \in Procs :
     /\ Answered(p) /\ payload[p].status = Missing /\ payload[p].error = Missing
     /\ pc[p] = "failed"
     /\ err[p].msg = <<"Unexpected Cobalt status", "None">>

HasError(p) == Answered(p) /\ payload[p].error # Missing

Usable(pl) == pl.status \in {"tunnel", "redirect"} /\ pl.url \notin {Missing, ""}

\* C7, as stated: every response that carries an error field fails the
\* invocation, whatever its status, also tunnel or redirect with a url.
ErrorFieldAlwaysFails ==
  \A p \in Procs :
     HasError(p) => (pc[p] = "failed" /\ err[p].type = "CobaltDownloadError")

\* C7, amended: a response that carries an error field fails the invocation
\* with CobaltDownloadError unless its status is tunnel or redirect and its
\* url is non-empty; then the error field is not looked at and the
\* invocation goes on to the existence check as if the field were absent.
ErrorFieldFailsUnlessUsable ==
  \A p \in Procs :
     HasError(p) =>
        IF Usable(payload[p])
        THEN /\ err[p].type # "CobaltDownloadError"
             /\ Called(p, "object_exists")
             /\ storage_key[p] = download_key(p)
        ELSE /\ pc[p] = "failed"
             /\ err[p].type = "CobaltDownloadError"
             /\ calls[p] = <<"post">>

\* An invocation whose answer carried an error field has returned a path.
ErrorFieldIgnored ==
  \E p \in Procs :
     /\ HasError(p) /\ Usable(payload[p])
     /\ pc[p] = "done"
     /\ result[p] = storage_key[p]

\* The arguments the keys are claimed to depend on.
KeyInputs(a) ==
  IF a.kind = "download"
  THEN <<a.kind, a.task_id, bucket_path_prefix(a.minio_bucket_block), a.object_name>>
  ELSE <<a.kind, a.source_object_path, a.task_id,
         bucket_path_prefix(a.minio_bucket_block), a.object_name>>

\* C8: the download key depends on (task_id, bucket prefix, object_name)
\* only and the audio key on (source key, task_id, bucket prefix, override
\* name) only: an invocation computes the key an earlier invocation with
\* equal values of these computed, whatever the store holds, whatever the
\* calls before, the source_url and the service's answer.
KeyDeterminism ==
  \A p \in Procs :
     (args[p] # NoArgs /\ storage_key[p] # None) =>
        \A a \in DOMAIN first :
           KeyInputs(a) = KeyInputs(args[p]) => first[a].key = storage_key[p]

\* Two download invocations with different source urls, the store changed
\* in between, have computed the same key.
SameKeyOtherUrl ==
  \E p \in Procs :
     /\ IsDownload(p) /\ storage_key[p] # None
     /\ \E a \in DOMAIN first :
          /\ KeyInputs(a) = KeyInputs(args[p])
          /\ a.source_url # args[p].source_url
          /\ first[a].key = storage_key[p]
          /\ CountOf(storage_key[p]) = 1

\* The invocation of worker p has no object name and a bucket without prefix,
\* and the service answered redirect with a non-empty url.
DefaultNameRedirect(p) ==
  /\ Answered(p)
  /\ args[p].object_name = None
  /\ bucket_path_prefix(args[p].minio_bucket_block) = None
  /\ payload[p].status = "redirect"
  /\ payload[p].url = DownloadUrl

DefaultPath(p) ==
  args[p].task_id \o <<"/", "download", "/", "video_">> \o args[p].task_id \o <<".", "mp4">>

CheckRaised(p) ==
  /\ IsDownload(p) /\ pc[p] = "failed"
  /\ err[p].type = "ClientError"
  /\ calls[p][Len(calls[p])] = "object_exists"

\* C20: object_exists answers false exactly for a head request that failed
\* with code 404 or NoSuchKey and true for one that succeeded; any other
\* error of the head request is raised as it is, and the invocation then
\* fails having started no transfer and no upload.
ExistenceCheckOutcomes ==
  /\ {o \in {"ok"} \cup NotFoundCodes \cup OtherCodes : object_exists(o) = "false"}
        = NotFoundCodes
  /\ {o \in {"ok"} \cup NotFoundCodes \cup OtherCodes : object_exists(o) = "true"}
        = {"ok"}
  /\ \A p \in Procs :
        /\ (IsDownload(p) /\ found[p] = "true") => storage_key[p] \in DOMAIN store
        /\ (IsDownload(p) /\ found[p] = "false" /\ ~Called(p, "head_object")) =>
              storage_key[p] \notin DOMAIN store
        /\ CheckRaised(p) =>
              /\ err[p].code \in OtherCodes
              /\ found[p] = "unknown"
              /\ calls[p] = <<"post", "object_exists">>
              /\ scratch[p] = {}
              /\ result[p] = None

\* A head request refused with 403 on an object that is there has failed
\* the invocation.
ForbiddenPropagated ==
  \E p \in Procs :
     /\ CheckRaised(p)
     /\ err[p] = [type |-> "ClientError", code |-> "403"]
     /\ storage_key[p] \in DOMAIN store
     /\ CountOf(storage_key[p]) = 0

---------------------------------------------------------------------------
(* Properties of overlapping download runs, under SpecOverlap *)

\* Workers p and q are both in a download run on the same key.
SameKey(p, q) ==
  /\ p # q /\ IsDownload(p) /\ IsDownload(q)
  /\ storage_key[p] # None /\ storage_key[p] = storage_key[q]

\* C19: download runs on the same key are not kept apart: both may find the
\* key absent and both upload.  Whatever the interleaving, an upload that
\* completes puts the uploader's file at the key in place of what was there
\* and touches no other key, the store holds one object, at that key, once
\* a run has returned, and two runs that have returned have returned the
\* same path.
OverlapConverges ==
  /\ [](\A p \in Procs :
          (IsDownload(p) /\ pc[p] = "done") =>
             /\ result[p] = storage_key[p]
             /\ DOMAIN store = {storage_key[p]}
             /\ \A q \in Procs :
                   (SameKey(p, q) /\ pc[q] = "done") => result[q] = result[p])
  /\ [][\A p \in Procs :
          (pc[p] = "upload" /\ pc'[p] = "new_head") =>
             /\ DOMAIN store' = DOMAIN store \cup {storage_key[p]}
             /\ store'[storage_key[p]] = payload[p].url
             /\ \A k \in DOMAIN store : k # storage_key[p] => store'[k] = store[k]
             /\ uploads'[storage_key[p]] = CountOf(storage_key[p]) + 1]_vars

\* Two overlapping runs both found the key absent, both uploaded, each its
\* own file, and both returned the same path; one file is at the key.
BothUploaded ==
  \E p, q \in Procs :
     /\ SameKey(p, q)
     /\ found[p] = "false" /\ found[q] = "false"
     /\ pc[p] = "done" /\ pc[q] = "done"
     /\ payload[p].url # payload[q].url
     /\ CountOf(storage_key[p]) = 2
     /\ store[storage_key[p]] = payload[q].url
     /\ result[p] = result[q]

---------------------------------------------------------------------------
(* Properties of the audio stage and of scratch space, under Spec *)

IsAudio(p) == args[p].kind = "audio"

\* The ways a run of ffmpeg fails: no binary, a non-zero exit, and exit 0
\* with the output file missing or empty.
FfmpegFailures == FfmpegOutcomes \ {"ok"}

ToolFailed(t) == t \in FfmpegFailures

\* C11: in the audio stage each tool failure (binary not found, non-zero
\* exit, exit 0 with a missing or zero-length output file) makes the stage
\* fail with AudioExtractionError instead of returning a path; no upload is
\* made and the store is unchanged.
ToolFailureFailsStage ==
  /\ [](\A p \in Procs : (IsAudio(p) /\ ToolFailed(tool[p])) =>
           /\ pc[p] = "failed"
           /\ err[p].type = "AudioExtractionError"
           /\ result[p] = None
           /\ summary[p] = "none"
           /\ ~Called(p, "upload")
           /\ tool[p] = "not_found" =>
                 err[p].msg = <<"FFmpeg binary not found in PATH">>
           /\ tool[p] \in {"no_output", "empty_output"} =>
                 err[p].msg = <<"FFmpeg did not produce an audio artifact">>)
  /\ [][\A p \in Procs :
          ((IsAudio(p) /\ ToolFailed(tool[p])) \/ ToolFailed(tool'[p])) =>
             (store' = store /\ uploads' = uploads)]_vars

\* ffmpeg exited 0 with an empty output file and the stage has failed.
EmptyOutputFailed ==
  \E p \in Procs :
     /\ IsAudio(p) /\ tool[p] = "empty_output"
     /\ pc[p] = "failed" /\ err[p].type = "AudioExtractionError"
     /\ storage_key[p] \notin DOMAIN store

\* C12: when an audio invocation that made its scratch directory ends, by
\* success or by any failure, its scratch source file, output file and
\* directory have been removed, but for removals that failed, whose errors
\* are swallowed; a failed removal changes neither the returned path nor
\* the error raised.
AudioScratchRemoved ==
  \A p \in Procs :
     (IsAudio(p) /\ Terminated(p)) =>
        /\ scratch[p] = {} \/ rm_failed[p]
        /\ pc[p] = "done" => (result[p] = storage_key[p] /\ err[p] = NoError)
        /\ pc[p] = "failed" =>
              /\ result[p] = None
              /\ err[p].type \in {"ClientError", "AudioExtractionError", "ArtifactError"}

\* An audio invocation failed after ffmpeg wrote its files, and nothing of
\* its scratch space is left.
AudioFailedAndClean ==
  \E p \in Procs :
     /\ IsAudio(p) /\ pc[p] = "failed"
     /\ Called(p, "upload")
     /\ scratch[p] = {} /\ ~rm_failed[p]

\* C13: when a download invocation ends, by success or by failure, every
\* scratch file and directory it made (the bulk-transfer directory and the
\* head-probe directory) has been removed, but for removals that failed.
DownloadScratchRemoved ==
  \A p \in Procs :
     (IsDownload(p) /\ Terminated(p)) => (scratch[p] = {} \/ rm_failed[p])

\* The ways probing a stored or downloaded video comes to nothing.
ProbeFailures == ProbeOutcomes \ {"ok"}

Probed(p) == IsDownload(p) /\ tool[p] # "none"

\* C14: the media probe never fails a stage: when the file does not exist,
\* ffprobe is missing, exits non-zero or prints no parseable JSON, the probe
\* yields the empty mapping, and the invocation's returned path, uploads and
\* store are what they are with a successful probe; on the reused path a
\* failed read of the object for probing changes nothing either.
ProbeNeverFailsStage ==
  /\ [](/\ \A o \in ProbeFailures : probe_media_metadata(o) = {}
        /\ \A p \in Procs : Probed(p) =>
              /\ tool[p] # "ok" => media[p] = {"size_bytes"}
              /\ pc[p] \in {"reuse_emit", "new_emit", "done", "failed"}
              /\ pc[p] = "failed" => err[p].type = "ArtifactError"
              /\ pc[p] = "done" =>
                    /\ result[p] = resolve_path(storage_key[p])
                    /\ storage_key[p] \in DOMAIN store
                    /\ summary[p] = (IF found[p] = "true" THEN "reused" ELSE "new")
              /\ NumCalls(p, "upload") = (IF found[p] = "true" THEN 0 ELSE 1))
  /\ [][\A p \in Procs :
          (IsDownload(p) /\ tool[p] = "none" /\ tool'[p] # "none") =>
             /\ pc'[p] = (IF found[p] = "true" THEN "reuse_emit" ELSE "new_emit")
             /\ store' = store /\ uploads' = uploads
             /\ result'[p] = result[p] /\ err'[p] = err[p]]_vars

\* With ffprobe missing, an invocation has uploaded and returned its path.
ReturnedWithoutProbe ==
  \E p \in Procs :
     /\ IsDownload(p) /\ tool[p] = "no_tool"
     /\ pc[p] = "done" /\ found[p] = "false"
     /\ result[p] = storage_key[p]
     /\ media[p] = {"size_bytes"}

---------------------------------------------------------------------------
(* Properties of the reporting sink, the probe and retries, under Spec *)

\* The invocation of worker p has handed its summary to the reporting sink.
Reported(p) == Called(p, "create_markdown_artifact")

\* C21: the reporting sink has no part in the outcome: an invocation of
\* either stage that has handed over its summary and is over has returned
\* the path of its key, whether the sink took the summary or failed.
SinkNeverDecidesOutcome ==
  \A p \in Procs :
     (Reported(p) /\ Terminated(p)) =>
        /\ pc[p] = "done"
        /\ err[p] = NoError
        /\ result[p] = resolve_path(storage_key[p])

\* The scratch file the transfer of worker p writes.
temp_file_path(p) ==
  File("cobalt-download-", file_name_of(args[p].task_id, args[p].object_name))

\* C24: no part of a transfer reaches the store: a download invocation
\* sends its upload only after the existence check and a transfer that ended
\* without error, with the whole file in scratch space; while it waits for
\* the service or for the transfer the store does not change, so a transport
\* failure there leaves the store as it was.
UploadAfterCompleteTransfer ==
  /\ [](\A p \in Procs : IsDownload(p) =>
          /\ Called(p, "upload") =>
               (Len(calls[p]) >= 4 /\
                SubSeq(calls[p], 1, 4) = <<"post", "object_exists", "stream", "upload">>)
          /\ pc[p] = "upload" => temp_file_path(p) \in scratch[p]
          /\ (pc[p] = "failed" /\ err[p].type = "HTTPError") => ~Called(p, "upload"))
  /\ [][\A p \in Procs : (IsDownload(p) /\ pc[p] \in {"post", "stream"}) =>
          (store' = store /\ uploads' = uploads)]_vars

\* A transfer broke off with part of the file written; nothing is at the key.
TransferBrokeOff ==
  \E p \in Procs :
     /\ IsDownload(p) /\ pc[p] = "failed" /\ err[p].type = "HTTPError"
     /\ Called(p, "stream")
     /\ temp_file_path(p) \in scratch[p]
     /\ storage_key[p] \notin DOMAIN store

\* The invocation of worker p has itself put an object at its key.
HasUploaded(p) == found[p] = "false" /\ Called(p, "head_object")

\* Worker p retries a download: the first invocation with its arguments
\* derived the same key and failed, and an upload to the key was completed
\* before this invocation.
IsRetryAfterUpload(p) ==
  /\ IsDownload(p) /\ storage_key[p] # None
  /\ args[p] \in DOMAIN first
  /\ first[args[p]].path = None
  /\ first[args[p]].key = storage_key[p]
  /\ CountOf(storage_key[p]) > (IF HasUploaded(p) THEN 1 ELSE 0)

\* C25: an uploaded object stays in the store whatever comes after the
\* upload, and a retry of an invocation that failed after its upload, once
\* the service has accepted it, does not find the key absent, makes no
\* transfer and no upload, leaves the store as it is, and takes the reused
\* path: when it returns it returns the path of the key with the 'reused'
\* summary.
RetryConverges ==
  /\ [](/\ \A k \in DOMAIN uploads : k \in DOMAIN store
        /\ \A p \in Procs : IsRetryAfterUpload(p) =>
              /\ found[p] # "false"
              /\ ~Called(p, "stream") /\ ~Called(p, "upload")
              /\ CountOf(storage_key[p]) = 1
              /\ found[p] = "true" => ReusedPathShape(p)
              /\ pc[p] = "done" =>
                   /\ found[p] = "true" /\ summary[p] = "reused"
                   /\ result[p] = resolve_path(first[args[p]].key))
  /\ [][\A p \in Procs : IsRetryAfterUpload(p) =>
          (store' = store /\ uploads' = uploads)]_vars

\* A retry after a failure that followed the upload has returned the path
\* of the object the failed invocation left.
RetryReused ==
  \E p \in Procs :
     /\ IsRetryAfterUpload(p)
     /\ pc[p] = "done" /\ summary[p] = "reused"
     /\ result[p] = storage_key[p]
     /\ CountOf(storage_key[p]) = 1
     /\ store[storage_key[p]] = DownloadUrl

\* C26: every download invocation first calls the extraction service, and
\* sends the existence check only on a usable answer (tunnel or redirect
\* with a url): an invocation that found or returned a stored object had
\* such an answer, and one whose service call failed or was answered
\* otherwise has failed with the service call as its only call, also when
\* the object is at its key.
ServiceAskedFirst ==
  \A p \in Procs : IsDownload(p) =>
     /\ calls[p][1] = "post"
     /\ (Called(p, "object_exists") \/ found[p] # "unknown" \/ pc[p] = "done") =>
           /\ Answered(p) /\ Usable(payload[p])
           /\ calls[p][2] = "object_exists"
     /\ (Answered(p) /\ ~Usable(payload[p])) =>
           /\ pc[p] = "failed" /\ err[p].type = "CobaltDownloadError"
           /\ calls[p] = <<"post">> /\ result[p] = None
     /\ (~Answered(p) /\ pc[p] # "post") =>
           /\ pc[p] = "failed" /\ err[p].type = "HTTPError"
           /\ calls[p] = <<"post">> /\ result[p] = None

\* An invocation failed on a picker answer although the object is at its key.
RejectedThoughStored ==
  \E p \in Procs :
     /\ IsDownload(p) /\ Answered(p) /\ payload[p].status = "picker"
     /\ pc[p] = "failed" /\ err[p].type = "CobaltDownloadError"
     /\ download_key(p) \in DOMAIN store

---------------------------------------------------------------------------
(* Properties of the pipeline flow, under SpecFlow *)

RunsOf(deployment) == {u \in DOMAIN units : units[u].deployment = deployment}

FlowEnded == co.pc \in {"returned", "failed"}

\* The flow has taken the final state of its download run.
Observed(states) == co.pc # "none" /\ co.download_state \in states

\* C15: in every run of the pipeline flow the download run is dispatched
\* exactly once and the audio run at most once; the audio run is dispatched
\* only after the download run is final and its result is in hand; when the
\* download run failed, the flow fails with that run's error, dispatches no
\* audio run and does not dispatch the download again.
DispatchOrder ==
  /\ Cardinality(RunsOf(DownloadDeployment)) = (IF co.pc = "start" THEN 0 ELSE 1)
  /\ Cardinality(RunsOf(AudioDeployment)) <= 1
  /\ RunsOf(AudioDeployment) # {} =>
        /\ units[co.download_run].state = "COMPLETED"
        /\ co.download_result = units[co.download_run].result
  /\ Observed({"FAILED", "CRASHED"}) =>
        /\ co.pc = "failed"
        /\ co.err = units[co.download_run].error
        /\ RunsOf(AudioDeployment) = {}
  /\ (co.pc = "failed" /\ co.err.type = "FlowRunWaitTimeout") =>
        RunsOf(AudioDeployment) = {}

\* The download run failed and the flow has failed with its error.
DownloadFailurePassedOn ==
  /\ co.pc = "failed"
  /\ co.download_state = "FAILED"
  /\ co.err = [type |-> "CobaltDownloadError"]
  /\ units[co.download_run].error = co.err
  /\ Len(units) = 1

\* C16: whenever the download run completed with storage path P, the flow
\* dispatches the audio run with source_object_path = P and with the same
\* task_id and bucket block.
AudioGetsDownloadPath ==
  (FlowEnded /\ Observed({"COMPLETED"})) =>
     \E u \in RunsOf(AudioDeployment) :
        /\ units[u].parameters.source_object_path = units[co.download_run].result.v
        /\ units[u].parameters.task_id = co.args.task_id
        /\ units[u].parameters.minio_bucket_block = co.args.minio_bucket_block

\* C17: the flow returns its record {download run id, download state,
\* audio run id} once the audio run is dispatched, the audio run still not
\* final, and what the audio run does later leaves the record as it is.
ReturnsRecordAtDispatch ==
  (FlowEnded /\ Observed({"COMPLETED"})) =>
     /\ co.pc = "returned"
     /\ co.out.download_flow_run_id = co.download_run
     /\ co.out.download_state = "COMPLETED"
     /\ co.out.audio_flow_run_id \in RunsOf(AudioDeployment)

---------------------------------------------------------------------------
(* Properties of the key derivations, under SpecKey *)

HasEmptySegment(k) == \E i \in 1..(Len(k) - 1) : k[i] = "/" /\ k[i + 1] = "/"

\* The prefix as a segment: trimmed of its slashes, empty when there is none.
TrimmedPrefix(prefix) == IF Truthy(prefix) THEN strip(prefix) ELSE <<>>

\* C9: the download key is the '/'-join of the non-empty segments
\* [task_id, 'download', prefix, file_name], file_name being object_name when
\* given and video_<task_id>.mp4 otherwise, and it never has an empty
\* segment ('//'), whatever slashes the prefix carries.
DownloadKeyIsJoinOfSegments ==
  (kd.fn = "download" /\ kd.out # <<>>) =>
     /\ kd.out[1] = join(filter_none(<<kd.task_id, <<"download">>,
                                       TrimmedPrefix(kd.prefix),
                                       file_name_of(kd.task_id, kd.object_name)>>))
     /\ ~HasEmptySegment(kd.out[1])

\* x/ when x is a segment, nothing when it is empty.
Seg(x) == IF x = <<>> THEN <<>> ELSE x \o <<"/">>

\* Override names that are file names (they do not begin with a slash).
IsFileName(o) == o = None \/ o = <<>> \/ o[1] # "/"

\* C10: for a source key task_id/download/[dir/]stem.ext the audio
\* derivation returns the relative key [prefix/]extract-audio/[dir/]name and
\* the full key task_id/ + the relative key, name being the override file
\* name when given and stem.audio.mka otherwise, prefix the bucket prefix
\* without its leading and trailing slashes; no parent adds no segment.
AudioKeyShape ==
  (kd.fn = "audio" /\ kd.out # <<>> /\ IsFileName(kd.object_name)) =>
     \A d \in KeyDirs, f \in KeyFiles :
        kd.source_object_path = kd.task_id \o <<"/", "download", "/">> \o RelPath(d, f) =>
           LET name == IF Truthy(kd.object_name) THEN kd.object_name
                       ELSE f.stem \o <<".", "audio", ".", "mka">>
               rel  == Seg(TrimmedPrefix(kd.prefix)) \o <<"extract-audio", "/">>
                         \o Seg(d) \o name
           IN  kd.out = <<rel, kd.task_id \o <<"/">> \o rel>>

\* The example of C10: task-123/download/video.mp4, no prefix, no override.
AudioKeyExample ==
  /\ kd.fn = "audio"
  /\ kd.source_object_path = <<"task-123", "/", "download", "/", "video", ".", "mp4">>
  /\ kd.task_id = <<"task-123">>
  /\ kd.prefix = None
  /\ kd.object_name = None
  /\ kd.out = << <<"extract-audio", "/", "video", ".", "audio", ".", "mka">>,
                 <<"task-123", "/", "extract-audio", "/", "video", ".", "audio", ".", "mka">> >>

---------------------------------------------------------------------------
(* Properties of the probe's mapping, under SpecProbe *)

\* The attributes ffprobe reported, by the key the mapping gives them.
ReportedKeys(data) ==
  {k \in {"duration_seconds"} : data.format.duration # Missing}
  \cup {k \in {"size_bytes"} : data.format.size # Missing}
  \cup {k \in {"bitrate"} : data.format.bit_rate # Missing}
  \cup (IF data.streams = <<>> THEN {}
        ELSE LET stream == data.streams[1]
             IN  {k \in {"codec"} : stream.codec_name # Missing}
                 \cup {k \in {"resolution"} :
                         stream.width # Missing /\ stream.height # Missing}
                 \cup {k \in {"frame_rate"} : stream.avg_frame_rate \notin {Missing, "0/0"}}
                 \cup {k \in {"video_bitrate"} : stream.bit_rate # Missing})

\* C22: in the mapping the probe returns, the keys are those of the
\* attributes ffprobe reported, none of them with a null value; a frame rate
\* of 0/0 has no key.
UnreportedAttributesOmitted ==
  (kd.fn = "probe" /\ kd.out # <<>>) =>
     /\ {e[1] : e \in kd.out[1]} = ReportedKeys(kd.data)
     /\ \A e \in kd.out[1] : e[2] # None /\ e[2] # <<>>

---------------------------------------------------------------------------
(* Further properties of the audio key derivation, under SpecKey *)

\* The audio derivation has been applied to the arguments in kd.
AudioDerived == kd.fn = "audio" /\ kd.out # <<>>

\* The audio keys derived, all else as in kd, from source key s.
AudioKeysFrom(s) == derive_storage_key(s, kd.task_id, kd.prefix, kd.object_name)

\* The source key of kd put under download/ and under <task_id>/download/.
UnderDownload == <<"download", "/">> \o kd.source_object_path
UnderTaskDownload == kd.task_id \o <<"/", "download", "/">> \o kd.source_object_path

IsRelative(s) == s = <<>> \/ s[1] # "/"

\* C23, as stated: for every relative path p the keys derived from p, from
\* download/p and from <task_id>/download/p are the same.
StrippingIdempotent ==
  (AudioDerived /\ IsRelative(kd.source_object_path)) =>
     /\ AudioKeysFrom(UnderDownload) = kd.out
     /\ AudioKeysFrom(UnderTaskDownload) = kd.out

\* The first segment of the source key of kd is neither the task id nor download.
PlainFirstSegment ==
  /\ PathParts(kd.source_object_path) # <<>>
  /\ PathParts(kd.source_object_path)[1] \notin {kd.task_id, <<"download">>}

\* C23, amended: the same for every relative path p that is not empty and
\* whose first segment is neither the task id nor download.
StrippingTolerated ==
  (AudioDerived /\ IsRelative(kd.source_object_path) /\ PlainFirstSegment) =>
     /\ AudioKeysFrom(UnderDownload) = kd.out
     /\ AudioKeysFrom(UnderTaskDownload) = kd.out

\* videos/video.mp4 has been derived, to the key its stored forms give.
StrippedSourceDerived ==
  /\ AudioDerived
  /\ kd.source_object_path = <<"videos", "/", "video", ".", "mp4">>
  /\ kd.task_id = <<"task-123">> /\ kd.prefix = None /\ kd.object_name = None
  /\ kd.out[2] = <<"task-123", "/", "extract-audio", "/", "videos", "/",
                   "video", ".", "audio", ".", "mka">>
  /\ AudioKeysFrom(UnderTaskDownload) = kd.out

\* The segments of a key: what lies between its slashes.
Segments(k) == split(k)

\* C28: whatever the source key, task id, prefix and override name, also a
\* name that begins with a slash, the full audio key is the task id, a
\* slash and the relative key, its first segment is the task id and one of
\* its segments is extract-audio.
AudioKeyInNamespace ==
  AudioDerived =>
     /\ kd.out[2] = kd.task_id \o <<"/">> \o kd.out[1]
     /\ Segments(kd.out[2])[1] = kd.task_id
     /\ \E i \in 1..Len(Segments(kd.out[2])) : Segments(kd.out[2])[i] = <<"extract-audio">>

\* C27, its last part: whatever the input, the audio key derived is not the
\* key of the source, so the upload of the audio never replaces the source.
AudioKeyIsNotSource ==
  AudioDerived => kd.out[2] # kd.source_object_path

\* audio.py 101-103 on the arguments and the derived key in kd: the scratch
\* copy of the source and the file ffmpeg writes.
kd_source_path == File("audio-extract-", PathName(kd.source_object_path))
kd_audio_path == File("audio-extract-", PathName(kd.out[2]))

\* C29: whatever the source key and the override name, also a name that is
\* the base name of the source, the scratch copy of the source and the
\* output of the transcode are two files.
ScratchPathsDistinct ==
  AudioDerived => kd_source_path # kd_audio_path

====
